---- MODULE Spec2Model ----
(***************************************************************************)
(* Model of sniffles/snf.py: the block-oriented SNF file store (SNFile)    *)
(* and its bounded-residency specialisation (LazySNFile).                  *)
(*                                                                         *)
(* Every method of the two classes is a function from a "world" (the       *)
(* fields of all file objects, the class-level registry and the bytes on   *)
(* storage) to a result record [w, exc, ret]: the world after the call,    *)
(* the exception it raised ("" for a normal return) and its return value.  *)
(* Methods call each other exactly as in the source, so one action of the  *)
(* state machine is one whole call of a public method.                     *)
(*                                                                         *)
(* Python's None is the empty sequence, a value v that may be None is      *)
(* <<v>>.  A dict is a function with a finite domain.                      *)
(***************************************************************************)
EXTENDS Integers, Sequences, FiniteSets, TLC

VARIABLES
    config,         \* the config object: flags and sizes read by the methods
    _MAX_ACTIVE,    \* LazySNFile._MAX_ACTIVE, the residency cap
    kind,           \* class of each file object: "SNFile" or "LazySNFile"
                    \* ("none": no such object was constructed)
    handle,         \* self.handle: False (mode "closed") or an open device
    _header,        \* self._header
    _index,         \* self._index
    header_length,  \* self.header_length (no value until read_header sets it)
    blocks,         \* self.blocks
    filename,       \* self.filename
    total_length,   \* self.total_length
    _ACTIVE,        \* LazySNFile._ACTIVE, oldest entry first
    disk,           \* the bytes stored under each filename
    last,           \* the call made by the last step and its outcome
    useOrder,       \* history: registry entries by most recent use, oldest first
    loadOrder,      \* history: registry entries by most recent load, oldest first
    firstLoad,      \* history: what the first successful load of an object read
    stored,         \* history: the candidates passed to each object's store
    writes,         \* history: the write_and_index calls made on each object
    cov,            \* history: the arguments of the last annotate_block_coverages
    threads         \* the threads inside LazySNFile.read_header: whether the
                    \* caller serializes them, each one's position and object

vars == <<config, _MAX_ACTIVE, kind, handle, _header, _index, header_length,
          blocks, filename, total_length, _ACTIVE, disk, last, useOrder,
          loadOrder, firstLoad, stored, writes, cov, threads>>

(***************************************************************************)
(* Bounds of the model.                                                    *)
(***************************************************************************)
NumHandles == 3     \* file objects in a run
MaxCap == 2         \* the caps tried are 1..MaxCap
HdrLen == 2         \* bytes of the header record of a stored file
MaxStored == 3      \* store calls on one object
MaxWrites == 2      \* write_and_index calls on one object

Handles == 1..NumHandles

None == <<>>
Some(v) == <<v>>

(***************************************************************************)
(* Values                                                                  *)
(***************************************************************************)
\* sv.TYPES, the SV type tags a block has one list for
TYPES == {"INS", "DEL", "DUP", "INV", "BND"}

\* A dict key.  JSON object keys are strings, the keys write_and_index puts
\* into the index are ints; the two never compare equal.
StrKey(s) == [t |-> "str", n |-> 0, s |-> s]
IntKey(n) == [t |-> "int", n |-> n, s |-> ""]

\* str(block_index)
Str(n) == ToString(n)

\* {svtype: [] for svtype in sv.TYPES} plus "_COVERAGE": {}
NewBlock == [k \in TYPES \cup {"_COVERAGE"} |-> <<>>]

\* A candidate: svcand.pos, svcand.svtype, svcand.rnames
Cand(pos, svtype, rnames) == [pos |-> pos, svtype |-> svtype, rnames |-> rnames]

\* Number of entries of a block (candidates and coverage bins)
RECURSIVE SumLen(_, _)
SumLen(blk, ks) ==
    IF ks = {} THEN 0
    ELSE LET k == CHOOSE x \in ks : TRUE
         IN Cardinality(DOMAIN blk[k]) + SumLen(blk, ks \ {k})

\* len(gzip.compress(pickle.dumps(block))): at least one byte, growing with
\* the block's content
DataLen(blk) == 1 + SumLen(blk, DOMAIN blk)

\* gzip.compress(pickle.dumps(block)): the payload bytes.  Each byte knows
\* the payload it belongs to and its place in it, so that only the complete
\* payload decodes.  Payload bytes hold no line terminator.
Encode(blk) ==
    [i \in 1..DataLen(blk) |->
        [tag |-> "blk", i |-> i, n |-> DataLen(blk), nl |-> FALSE, val |-> blk]]

\* Whether gzip.decompress + pickle.loads accept the bytes
Decodes(data) ==
    /\ Len(data) >= 1
    /\ data[1].tag = "blk"
    /\ data[1].n = Len(data)
    /\ \A j \in 1..Len(data) :
          data[j].tag = "blk" /\ data[j].i = j /\ data[j].val = data[1].val

\* pickle.loads(gzip.decompress(data)) for bytes that decode
Decode(data) == data[1].val

\* The header record of a file: one line of JSON text, ended by a newline
HeaderRecord(doc) ==
    [i \in 1..HdrLen |->
        [tag |-> "hdr", i |-> i, n |-> HdrLen, nl |-> (i = HdrLen), val |-> doc]]

\* Whether json.loads accepts the line
ParsesAsJson(line) ==
    /\ Len(line) >= 1
    /\ line[1].tag = "hdr"
    /\ line[1].n = Len(line)
    /\ \A j \in 1..Len(line) :
          line[j].tag = "hdr" /\ line[j].i = j /\ line[j].val = line[1].val

\* json.loads(header_text.strip()) for a line that parses
JsonLoads(line) == line[1].val

(***************************************************************************)
(* The stored file the reading runs use: a header whose index registers    *)
(* two ranges under contig "c1", block id "0", followed by the two         *)
(* payloads.                                                               *)
(***************************************************************************)
BlockA ==
    [NewBlock EXCEPT !["DEL"] = <<Cand(100, "DEL", None), Cand(250, "DEL", None)>>]
BlockB ==
    [NewBlock EXCEPT !["INS"] = <<Cand(300, "INS", None)>>]

StoredIndex ==
    (StrKey("c1") :>
        (StrKey("0") :> << <<0, DataLen(BlockA)>>,
                           <<DataLen(BlockA), DataLen(BlockB)>> >>))

StoredHeader == [index |-> StoredIndex]

ValidFile == HeaderRecord(StoredHeader) \o Encode(BlockA) \o Encode(BlockB)

\* An object that has written: after store of the two candidates of BlockA,
\* write_and_index and close, it holds the block and its index entry, and
\* its file is the body alone, without a header record
WrittenBlocks == (0 :> BlockA)
WrittenIndex == (IntKey(0) :> <<0, DataLen(BlockA)>>)
WrittenFile == Encode(BlockA)

\* The read_blocks calls tried: a registered block, a block id that is not
\* registered, a contig that is not registered
Requests == {<<StrKey("c1"), 0>>, <<StrKey("c1"), 1000>>, <<StrKey("c2"), 0>>}
RegisteredRequests == {<<StrKey("c1"), 0>>}

(***************************************************************************)
(* The world and the result of a call                                      *)
(***************************************************************************)
World ==
    [handle |-> handle, _header |-> _header, _index |-> _index,
     header_length |-> header_length, blocks |-> blocks,
     filename |-> filename, total_length |-> total_length,
     _ACTIVE |-> _ACTIVE, disk |-> disk, evicted |-> <<>>, loads |-> <<>>]

Ret(w, exc, ret) == [w |-> w, exc |-> exc, ret |-> ret]

Closed == [mode |-> "closed", pos |-> 0]

InSeq(x, s) == \E i \in 1..Len(s) : s[i] = x

Without(s, x) == SelectSeq(s, LAMBDA y : y # x)

(***************************************************************************)
(* SNFile                                                                  *)
(***************************************************************************)
\* SNFile.is_open: self.handle is not False
is_open(w, h) == w.handle[h].mode # "closed"

\* SNFile.close
close(w, h) ==
    IF w.handle[h].mode # "closed" THEN [w EXCEPT !.handle[h] = Closed] ELSE w

\* SNFile.open: close an open handle, then open(self.filename, "rb")
open(w, h) == [close(w, h) EXCEPT !.handle[h] = [mode |-> "rb", pos |-> 0]]

\* if self.config.combine_close_handles: self.close()
CloseIfEager(w, h) == IF config.combine_close_handles THEN close(w, h) ELSE w

\* handle.readline(): the bytes from the read position up to and including
\* the first line terminator, or up to the end of the file
RECURSIVE LineEnd(_, _)
LineEnd(file, p) ==
    IF p >= Len(file) THEN Len(file)
    ELSE IF file[p + 1].nl THEN p + 1
    ELSE LineEnd(file, p + 1)

ReadLine(file, p) == SubSeq(file, p + 1, LineEnd(file, p))

\* handle.read(n)
ReadBytes(file, p, n) ==
    SubSeq(file, p + 1, IF p + n > Len(file) THEN Len(file) ELSE p + n)

\* SNFile.read_header
SNFile_read_header(w, h) ==
    LET w1 == IF ~is_open(w, h) THEN open(w, h) ELSE w
    IN  IF w1.handle[h].mode # "rb"
        THEN Ret(w1, "UnsupportedOperation", None)
        ELSE
        LET header_text == ReadLine(w1.disk[w1.filename[h]], w1.handle[h].pos)
            w2 == [w1 EXCEPT !.handle[h].pos = @ + Len(header_text),
                             !.header_length[h] = Some(Len(header_text))]
        IN  IF ~ParsesAsJson(header_text)
            THEN Ret(w2, "JSONDecodeError", None)
            ELSE
            LET doc == JsonLoads(header_text)
                w3 == [w2 EXCEPT !._header[h] = Some(doc),
                                 !._index[h] = Some(doc.index)]
            IN  Ret(CloseIfEager(w3, h), "", None)

(***************************************************************************)
(* LazySNFile                                                              *)
(***************************************************************************)
\* Variant of unload that also closes the device
LazySNFile_unload_closing(w, h) ==
    [w EXCEPT !._ACTIVE = Without(@, h),
              !._header[h] = None,
              !._index[h] = None,
              !.handle[h] = Closed]

\* LazySNFile.unload
LazySNFile_unload(w, h) ==
    [w EXCEPT !._ACTIVE = Without(@, h),
              !._header[h] = None,
              !._index[h] = None]

\* Bookkeeping: LazySNFile.read_header was entered on h in this call
Entered(w, h) == [w EXCEPT !.loads = Append(@, h)]

\* Variant of the touch that leaves an entry already present where it is
RegistryTouch_no_move(w, h) ==
    IF InSeq(h, w._ACTIVE) THEN w ELSE [w EXCEPT !._ACTIVE = Append(@, h)]

\* The registry part of LazySNFile.read_header: if self in _ACTIVE, move it to
\* the end, else insert it at the end
RegistryTouch(w, h) ==
    IF InSeq(h, w._ACTIVE)
    THEN [w EXCEPT !._ACTIVE = Append(Without(@, h), h)]
    ELSE [w EXCEPT !._ACTIVE = Append(@, h)]

\* Variants of the eviction: a threshold one too high, the newest entry
\* popped instead of the oldest, the entry popped but not unloaded
RegistryEvict_late(w) ==
    IF Len(w._ACTIVE) > _MAX_ACTIVE + 1
    THEN LET oldest_snf == Head(w._ACTIVE)
         IN  LazySNFile_unload(
                 [w EXCEPT !._ACTIVE = Tail(@), !.evicted = Append(@, oldest_snf)],
                 oldest_snf)
    ELSE w

RegistryEvict_newest(w) ==
    IF Len(w._ACTIVE) > _MAX_ACTIVE
    THEN LET newest_snf == w._ACTIVE[Len(w._ACTIVE)]
         IN  LazySNFile_unload(
                 [w EXCEPT !._ACTIVE = SubSeq(@, 1, Len(@) - 1),
                           !.evicted = Append(@, newest_snf)],
                 newest_snf)
    ELSE w

RegistryEvict_no_unload(w) ==
    IF Len(w._ACTIVE) > _MAX_ACTIVE
    THEN [w EXCEPT !._ACTIVE = Tail(@), !.evicted = Append(@, Head(w._ACTIVE))]
    ELSE w

\* if len(_ACTIVE) > _MAX_ACTIVE: pop the oldest entry and unload it
RegistryEvict(w) ==
    IF Len(w._ACTIVE) > _MAX_ACTIVE
    THEN LET oldest_snf == Head(w._ACTIVE)
         IN  LazySNFile_unload(
                 [w EXCEPT !._ACTIVE = Tail(@), !.evicted = Append(@, oldest_snf)],
                 oldest_snf)
    ELSE w

\* Variant without the seek
SeekStart_skipped(w, h) == w

\* if self.handle: self.handle.seek(0)
SeekStart(w, h) ==
    IF w.handle[h].mode # "closed" THEN [w EXCEPT !.handle[h].pos = 0] ELSE w

\* LazySNFile.read_header
LazySNFile_read_header(w, h) ==
    SNFile_read_header(
        SeekStart(RegistryEvict(RegistryTouch(Entered(w, h), h)), h), h)

\* read_header as dispatched on the object's class
read_header(w, h) ==
    IF kind[h] = "LazySNFile" THEN LazySNFile_read_header(w, h)
    ELSE SNFile_read_header(w, h)

\* The index property: LazySNFile.index loads the header when it is absent
index(w, h) ==
    IF kind[h] = "LazySNFile" /\ w._header[h] = None
    THEN LET r == LazySNFile_read_header(w, h)
         IN  IF r.exc # "" THEN r ELSE Ret(r.w, "", r.w._index[h])
    ELSE Ret(w, "", w._index[h])

\* The header property
header(w, h) ==
    IF kind[h] = "LazySNFile" /\ w._header[h] = None
    THEN LET r == LazySNFile_read_header(w, h)
         IN  IF r.exc # "" THEN r ELSE Ret(r.w, "", r.w._header[h])
    ELSE Ret(w, "", w._header[h])

(***************************************************************************)
(* Reading blocks                                                          *)
(***************************************************************************)
\* One pass of the loop body of SNFile.read_blocks: seek to
\* header_length + block_data_start, read block_data_length bytes, decode.
\* The result's ret is the decoded block.
ReadRange(w, h, range) ==
    IF w.handle[h].mode = "closed"
    THEN Ret(w, "AttributeError", None)      \* False has no attribute seek
    ELSE IF w.header_length[h] = None
    THEN Ret(w, "AttributeError", None)      \* header_length was never set
    ELSE
    LET at == w.header_length[h][1] + range[1]
        w1 == [w EXCEPT !.handle[h].pos = at]
    IN  IF w1.handle[h].mode # "rb"
        THEN Ret(w1, "UnsupportedOperation", None)
        ELSE
        LET data == ReadBytes(w1.disk[w1.filename[h]], at, range[2])
            w2 == [w1 EXCEPT !.handle[h].pos = at + Len(data)]
        IN  IF Decodes(data) THEN Ret(w2, "", Decode(data))
            ELSE Ret(w2, "BadGzipFile", None)

\* The loop of SNFile.read_blocks over the ranges of one block id; an
\* exception closes the handle when the eager-close flag is set and is
\* raised again
RECURSIVE ReadRanges(_, _, _, _)
ReadRanges(w, h, ranges, got) ==
    IF ranges = <<>> THEN Ret(w, "", got)
    ELSE LET r == ReadRange(w, h, Head(ranges))
         IN  IF r.exc # "" THEN Ret(CloseIfEager(r.w, h), r.exc, None)
             ELSE ReadRanges(r.w, h, Tail(ranges), Append(got, r.ret))

\* SNFile.read_blocks.  self.index is the index property: on a LazySNFile
\* whose header is absent its first evaluation loads the header, and the
\* later evaluations in the same call find the header loaded.
read_blocks(w, h, contig, block_index) ==
    LET w1 == IF ~is_open(w, h) THEN open(w, h) ELSE w
        key == StrKey(Str(block_index))
        ri == index(w1, h)
    IN  IF ri.exc # "" THEN Ret(ri.w, ri.exc, None)
        ELSE IF ri.ret = None
        THEN Ret(ri.w, "TypeError", None)    \* contig not in None
        ELSE
        LET idx == ri.ret[1]
        IN  IF contig \notin DOMAIN idx
            THEN Ret(CloseIfEager(ri.w, h), "", None)
            ELSE IF key \notin DOMAIN idx[contig]
            THEN Ret(CloseIfEager(ri.w, h), "", None)
            ELSE
            LET r == ReadRanges(ri.w, h, idx[contig][key], <<>>)
            IN  IF r.exc # "" THEN r
                ELSE Ret(CloseIfEager(r.w, h), "", Some(r.ret))

(***************************************************************************)
(* Writing                                                                 *)
(***************************************************************************)
\* int(x / y) for y > 0: the quotient rounded towards zero
IntDiv(x, y) == IF x >= 0 THEN x \div y ELSE -((-x) \div y)

\* int(pos / block_size) * block_size
BlockIndex(pos) == IntDiv(pos, config.snf_block_size) * config.snf_block_size

\* Variant of store that puts the candidate in front of its list
store_prepending(w, h, svcand) ==
    LET block_index == BlockIndex(svcand.pos)
        w1 == IF block_index \notin DOMAIN w.blocks[h]
              THEN [w EXCEPT !.blocks[h] = @ @@ (block_index :> NewBlock)]
              ELSE w
        cand == IF ~config.output_rnames
                THEN [svcand EXCEPT !.rnames = None]
                ELSE svcand
    IN  Ret([w1 EXCEPT !.blocks[h][block_index][svcand.svtype] = <<cand>> \o @],
            "", None)

\* SNFile.store
store(w, h, svcand) ==
    LET block_index == BlockIndex(svcand.pos)
        w1 == IF block_index \notin DOMAIN w.blocks[h]
              THEN [w EXCEPT !.blocks[h] = @ @@ (block_index :> NewBlock)]
              ELSE w
        cand == IF ~config.output_rnames
                THEN [svcand EXCEPT !.rnames = None]
                ELSE svcand
    IN  Ret([w1 EXCEPT !.blocks[h][block_index][svcand.svtype] = Append(@, cand)],
            "", None)

\* sorted(keys): the keys in ascending order
RECURSIVE Sorted(_)
Sorted(ks) ==
    IF ks = {} THEN <<>>
    ELSE LET m == CHOOSE x \in ks : \A y \in ks : x <= y
         IN  <<m>> \o Sorted(ks \ {m})

\* handle.write(data) at the handle's position
WriteBytes(file, p, data) ==
    SubSeq(file, 1, p) \o data \o SubSeq(file, p + Len(data) + 1, Len(file))

\* One pass of the loop body of SNFile.write_and_index
WriteBlock(w, h, block_id, offset) ==
    LET data == Encode(w.blocks[h][block_id])
    IN  IF w.handle[h].mode # "wb"
        THEN Ret(w, "UnsupportedOperation", offset)
        ELSE
        LET w1 == [w EXCEPT !.disk[w.filename[h]] = WriteBytes(@, w.handle[h].pos, data),
                            !.handle[h].pos = @ + Len(data)]
        IN  IF w1._index[h] = None
            THEN Ret(w1, "TypeError", offset)     \* None[block_id] = ...
            ELSE Ret([w1 EXCEPT
                        !._index[h] =
                            Some([k \in DOMAIN @[1] \cup {IntKey(block_id)} |->
                                    IF k = IntKey(block_id)
                                    THEN <<offset, Len(data)>>
                                    ELSE @[1][k]]),
                        !.total_length[h] = @ + Len(data)],
                     "", offset + Len(data))

\* Variant of the loop that does not advance the offset
RECURSIVE WriteBlocks_same_offset(_, _, _, _)
WriteBlocks_same_offset(w, h, ids, offset) ==
    IF ids = <<>> THEN Ret(w, "", None)
    ELSE LET r == WriteBlock(w, h, Head(ids), offset)
         IN  IF r.exc # "" THEN Ret(r.w, r.exc, None)
             ELSE WriteBlocks_same_offset(r.w, h, Tail(ids), offset)

\* The loop of SNFile.write_and_index over sorted(self.blocks)
RECURSIVE WriteBlocks(_, _, _, _)
WriteBlocks(w, h, ids, offset) ==
    IF ids = <<>> THEN Ret(w, "", None)
    ELSE LET r == WriteBlock(w, h, Head(ids), offset)
         IN  IF r.exc # "" THEN Ret(r.w, r.exc, None)
             ELSE WriteBlocks(r.w, h, Tail(ids), r.ret)

\* SNFile.write_and_index
write_and_index(w, h) ==
    LET w1 == IF ~is_open(w, h) THEN open(w, h) ELSE w
        r == WriteBlocks(w1, h, Sorted(DOMAIN w1.blocks[h]), 0)
    IN  IF r.exc # "" THEN r
        ELSE Ret(CloseIfEager(r.w, h), "", None)

(***************************************************************************)
(* Steps: one call of a public method on one object                        *)
(***************************************************************************)
Call(op, h, contig, block, r) ==
    [op |-> op, h |-> h, contig |-> contig, block |-> block,
     exc |-> r.exc, ret |-> r.ret, evicted |-> r.w.evicted,
     reload |-> (r.w.loads # <<>> /\ firstLoad[h] # None),
     lru |-> IF r.w.evicted # <<>> THEN <<Head(useOrder)>> ELSE <<>>]

NoCall ==
    [op |-> "init", h |-> 0, contig |-> StrKey(""), block |-> 0,
     exc |-> "", ret |-> None, evicted |-> <<>>, reload |-> FALSE,
     lru |-> <<>>]

\* What a load read, kept from the first successful load of each object
Loaded(w, h) ==
    [header |-> w._header[h][1], index |-> w._index[h][1],
     header_length |-> w.header_length[h]]

Commit(r, uses, h) ==
    /\ handle' = r.w.handle
    /\ _header' = r.w._header
    /\ _index' = r.w._index
    /\ header_length' = r.w.header_length
    /\ blocks' = r.w.blocks
    /\ filename' = r.w.filename
    /\ total_length' = r.w.total_length
    /\ _ACTIVE' = r.w._ACTIVE
    /\ disk' = r.w.disk
    /\ useOrder' = SelectSeq(IF uses THEN Append(Without(useOrder, h), h)
                                      ELSE useOrder,
                              LAMBDA x : InSeq(x, r.w._ACTIVE))
    /\ loadOrder' = SelectSeq(IF r.w.loads # <<>>
                               THEN Append(Without(loadOrder, h), h)
                               ELSE loadOrder,
                               LAMBDA x : InSeq(x, r.w._ACTIVE))
    /\ firstLoad' = IF firstLoad[h] = None /\ r.w._header[h] # None
                    THEN [firstLoad EXCEPT ![h] = Some(Loaded(r.w, h))]
                    ELSE firstLoad
    /\ UNCHANGED <<config, _MAX_ACTIVE, kind>>

\* The object h was constructed
Exists(h) == kind[h] # "none"

\* snf.read_header()
ReadHeader(h) ==
    LET r == read_header(World, h)
    IN  /\ Exists(h)
        /\ last' = Call("read_header", h, StrKey(""), 0, r)
        /\ Commit(r, TRUE, h)
        /\ UNCHANGED <<stored, writes, cov, threads>>

\* snf.index
IndexAccess(h) ==
    LET r == index(World, h)
    IN  /\ Exists(h)
        /\ last' = Call("index", h, StrKey(""), 0, r)
        /\ Commit(r, TRUE, h)
        /\ UNCHANGED <<stored, writes, cov, threads>>

\* snf.header
HeaderAccess(h) ==
    LET r == header(World, h)
    IN  /\ Exists(h)
        /\ last' = Call("header", h, StrKey(""), 0, r)
        /\ Commit(r, TRUE, h)
        /\ UNCHANGED <<stored, writes, cov, threads>>

\* snf.read_blocks(contig, block_index)
ReadBlocks(h, contig, block_index) ==
    LET r == read_blocks(World, h, contig, block_index)
    IN  /\ Exists(h)
        /\ last' = Call("read_blocks", h, contig, block_index, r)
        /\ Commit(r, TRUE, h)
        /\ UNCHANGED <<stored, writes, cov, threads>>

\* snf.unload()
Unload(h) ==
    /\ kind[h] = "LazySNFile"
    /\ LET r == Ret(LazySNFile_unload(World, h), "", None)
       IN  /\ last' = Call("unload", h, StrKey(""), 0, r)
           /\ Commit(r, FALSE, h)
    /\ UNCHANGED <<stored, writes, cov, threads>>

\* snf.close()
Close(h) ==
    /\ Exists(h)
    /\ LET r == Ret(close(World, h), "", None)
       IN  /\ last' = Call("close", h, StrKey(""), 0, r)
           /\ Commit(r, FALSE, h)
    /\ UNCHANGED <<stored, writes, cov, threads>>

\* snf.open()
Open(h) ==
    /\ Exists(h)
    /\ LET r == Ret(open(World, h), "", None)
       IN  /\ last' = Call("open", h, StrKey(""), 0, r)
           /\ Commit(r, FALSE, h)
    /\ UNCHANGED <<stored, writes, cov, threads>>

\* snf.store(svcand)
Store(h, svcand) ==
    /\ Exists(h)
    /\ Len(stored[h]) < MaxStored
    /\ LET r == store(World, h, svcand)
       IN  /\ last' = Call("store", h, StrKey(""), 0, r)
           /\ Commit(r, FALSE, h)
    /\ stored' = [stored EXCEPT ![h] = Append(@, svcand)]
    /\ UNCHANGED <<writes, cov, threads>>

\* snf.write_and_index()
WriteAndIndex(h) ==
    /\ Exists(h)
    /\ writes[h] < MaxWrites
    /\ LET r == write_and_index(World, h)
       IN  /\ last' = Call("write_and_index", h, StrKey(""), 0, r)
           /\ Commit(r, FALSE, h)
    /\ writes' = [writes EXCEPT ![h] = @ + 1]
    /\ UNCHANGED <<stored, cov, threads>>

(***************************************************************************)
(* Spec: LazySNFile objects over stored files, more objects than the cap   *)
(***************************************************************************)
Configs ==
    [combine_close_handles : BOOLEAN, output_rnames : {TRUE},
     snf_block_size : {1000}]

Init ==
    /\ config \in Configs
    /\ _MAX_ACTIVE \in 1..MaxCap
    /\ kind = [h \in Handles |-> "LazySNFile"]
    /\ handle = [h \in Handles |-> Closed]
    /\ _header = [h \in Handles |-> None]
    /\ header_length = [h \in Handles |-> None]
    /\ filename = [h \in Handles |-> h]
    /\ _ACTIVE = <<>>
    /\ \E writers \in {{}, {1}} :
          /\ _index = [h \in Handles |-> IF h \in writers THEN Some(WrittenIndex)
                                         ELSE Some(<<>>)]
          /\ blocks = [h \in Handles |-> IF h \in writers THEN WrittenBlocks
                                         ELSE <<>>]
          /\ total_length = [h \in Handles |-> IF h \in writers
                                                THEN DataLen(BlockA) ELSE 0]
          /\ disk = [h \in Handles |-> IF h \in writers THEN WrittenFile
                                       ELSE ValidFile]
    /\ last = NoCall
    /\ useOrder = <<>>
    /\ loadOrder = <<>>
    /\ firstLoad = [h \in Handles |-> None]
    /\ stored = [h \in Handles |-> IF blocks[h] = <<>> THEN <<>>
                                    ELSE BlockA["DEL"]]
    /\ writes = [h \in Handles |-> IF blocks[h] = <<>> THEN 0 ELSE 1]
    /\ cov = None
    /\ threads = None

Next ==
    \E h \in Handles :
        \/ ReadHeader(h)
        \/ IndexAccess(h)
        \/ HeaderAccess(h)
        \/ \E req \in RegisteredRequests : ReadBlocks(h, req[1], req[2])
        \/ Unload(h)

Spec == Init /\ [][Next]_vars

(***************************************************************************)
(* The residency registry                                                  *)
(***************************************************************************)
Lazy(h) == kind[h] = "LazySNFile"

\* The objects whose header is loaded
Resident == {h \in Handles : _header[h] # None}

\* The step is a call on h that enters LazySNFile.read_header
LoadStep(h) ==
    /\ Lazy(h)
    /\ last'.h = h
    /\ \/ last'.op = "read_header"
       \/ last'.op \in {"index", "header", "read_blocks"} /\ _header[h] = None

\* C1: at most _MAX_ACTIVE objects hold a loaded header (and with it the
\* index read from it) after every call.
C1_ResidencyBound ==
    /\ Cardinality(Resident) <= _MAX_ACTIVE
    /\ \A h \in Resident : _index[h] = Some(_header[h][1].index)

\* More objects than the cap have been loaded, the last call evicted one, and
\* the cap is reached
C1_Witness ==
    /\ Cardinality(Resident) = _MAX_ACTIVE
    /\ Cardinality({h \in Handles : firstLoad[h] # None}) > _MAX_ACTIVE
    /\ last.evicted # <<>>

\* C2: the registry never holds more than _MAX_ACTIVE entries after a call,
\* and a load that brings it to _MAX_ACTIVE + 1 entries removes exactly one.
C2_RegistrySize ==
    /\ [](Len(_ACTIVE) <= _MAX_ACTIVE)
    /\ [][\A h \in Handles :
            (LoadStep(h) /\ ~InSeq(h, _ACTIVE) /\ Len(_ACTIVE) = _MAX_ACTIVE)
            => /\ Len(last'.evicted) = 1
               /\ Len(_ACTIVE') = _MAX_ACTIVE
               /\ {_ACTIVE'[i] : i \in 1..Len(_ACTIVE')}
                    = ({_ACTIVE[i] : i \in 1..Len(_ACTIVE)} \cup {h})
                        \ {last'.evicted[1]}]_vars

\* The registry is full and the last call evicted an entry
C2_Witness ==
    /\ Len(_ACTIVE) = _MAX_ACTIVE
    /\ Len(last.evicted) = 1
    /\ last.op \in {"read_header", "index", "header", "read_blocks"}

\* C3: a read_header call on h (made directly or by an access that finds the
\* header absent) leaves h in the registry, as its newest entry, does not
\* unload h, and evicts only an object other than h.
C3_LoaderNotEvicted ==
    [][\A h \in Handles :
          LoadStep(h)
          => /\ InSeq(h, _ACTIVE')
             /\ _ACTIVE'[Len(_ACTIVE')] = h
             /\ ~InSeq(h, last'.evicted)
             /\ (last'.exc = "" => _header'[h] # None /\ _index'[h] # None)]_vars

\* A load on h evicted another object while h stayed
C3_Witness ==
    /\ last.evicted # <<>>
    /\ last.exc = ""
    /\ InSeq(last.h, _ACTIVE)
    /\ _header[last.h] # None
    /\ _MAX_ACTIVE = 1

\* C4 as claimed: the evicted object is the registry entry whose most recent
\* use (index or header access, read_blocks or read_header call, whether or
\* not it loaded the header) is the oldest.
C4_EvictsLeastRecentlyUsed ==
    [][\A x \in Handles :
          InSeq(x, last'.evicted) => x = Head(useOrder)]_vars

\* C4 amended: the evicted object is the registry entry whose most recent
\* load (entry into LazySNFile.read_header) is the oldest.
C4_EvictsLeastRecentlyLoaded ==
    [][\A x \in Handles :
          InSeq(x, last'.evicted)
          => /\ x = Head(loadOrder)
             /\ last'.evicted = <<x>>]_vars

\* An eviction chose among several entries, and the entry it removed was not
\* the one used least recently
C4_Witness ==
    /\ last.evicted # <<>>
    /\ Len(_ACTIVE) >= 2
    /\ last.lru # last.evicted

\* C5: an unload (direct or as an eviction) of x sets x's header and index to
\* None and removes x from the registry; x's handle, blocks, total_length,
\* filename and header_length stay, and so do every object other than x and
\* the caller, and the order of the remaining registry entries.
Unloaded(x) ==
    \/ last'.op = "unload" /\ last'.h = x
    \/ InSeq(x, last'.evicted)

SameObject(y) ==
    /\ handle'[y] = handle[y]
    /\ _header'[y] = _header[y]
    /\ _index'[y] = _index[y]
    /\ header_length'[y] = header_length[y]
    /\ blocks'[y] = blocks[y]
    /\ total_length'[y] = total_length[y]
    /\ filename'[y] = filename[y]

C5_UnloadFrame ==
    [][\A x \in Handles :
          Unloaded(x)
          => /\ _header'[x] = None
             /\ _index'[x] = None
             /\ ~InSeq(x, _ACTIVE')
             /\ handle'[x] = handle[x]
             /\ blocks'[x] = blocks[x]
             /\ total_length'[x] = total_length[x]
             /\ filename'[x] = filename[x]
             /\ header_length'[x] = header_length[x]
             /\ disk' = disk
             /\ \A y \in Handles \ {x, last'.h} : SameObject(y)
             /\ Without(Without(_ACTIVE', x), last'.h)
                  = Without(Without(_ACTIVE, x), last'.h)
             /\ (last'.op = "unload"
                   => _ACTIVE' = Without(_ACTIVE, x)
                      /\ \A y \in Handles \ {x} : SameObject(y))]_vars

\* An object with an open device, a read position past the start, written
\* blocks and a total_length has been evicted
C5_Witness ==
    \E x \in Handles :
        /\ InSeq(x, last.evicted)
        /\ _header[x] = None
        /\ _index[x] = None
        /\ header_length[x] # None
        /\ handle[x].mode = "rb"
        /\ handle[x].pos > 0
        /\ blocks[x] # <<>>
        /\ total_length[x] > 0

\* C6: on a LazySNFile over a valid file every index or header access returns
\* what the first load read, and header_length is what the first load set.
C6_TransparentReload ==
    \A h \in Handles :
        (/\ Lazy(h)
         /\ last.h = h
         /\ last.op \in {"index", "header"}
         /\ disk[filename[h]] = ValidFile)
        => /\ last.exc = ""
           /\ firstLoad[h] # None
           /\ last.ret = IF last.op = "index"
                         THEN Some(firstLoad[h][1].index)
                         ELSE Some(firstLoad[h][1].header)
           /\ _header[h] = Some(firstLoad[h][1].header)
           /\ _index[h] = Some(firstLoad[h][1].index)
           /\ header_length[h] = firstLoad[h][1].header_length
           /\ header_length[h] = Some(HdrLen)

\* An access reloaded the header of an object that had been loaded before and
\* whose device was left open
C6_Witness ==
    /\ last.op \in {"index", "header"}
    /\ last.reload
    /\ Lazy(last.h)
    /\ disk[filename[last.h]] = ValidFile
    /\ handle[last.h].mode = "rb"

(***************************************************************************)
(* Coverage annotation                                                     *)
(***************************************************************************)
\* A lead provider: covrtab_min_bin, end, covrtab_fwd, covrtab_rev
LeadProvider(min_bin, end, fwd, rev) ==
    [covrtab_min_bin |-> min_bin, end |-> end,
     covrtab_fwd |-> fwd, covrtab_rev |-> rev]

\* math.ceil(x / float(y)) for y > 0
Ceil(x, y) == -((-x) \div y)

\* The body of "if bin % coverage_binsize_combine == 0" up to the resets
CoverageFlush(w, h, bin, coverage_sum, bin_count) ==
    LET block_index == BlockIndex(bin)
        coverage_total_curr == Ceil(coverage_sum, bin_count)
        w1 == IF block_index \notin DOMAIN w.blocks[h]
              THEN [w EXCEPT !.blocks[h] = @ @@ (block_index :> NewBlock)]
              ELSE w
    IN  IF coverage_total_curr > 0
        THEN [w1 EXCEPT !.blocks[h][block_index]["_COVERAGE"] =
                 (bin :> coverage_total_curr) @@ @]
        ELSE w

\* The loop of annotate_block_coverages from bin on; c holds the locals
\* coverage_fwd, coverage_rev, coverage_sum, bin_count
RECURSIVE CoverageLoop(_, _, _, _, _, _)
CoverageLoop(w, h, lead_provider, bin, end_bin, c) ==
    IF bin > end_bin THEN w
    ELSE LET coverage_fwd ==
                 IF bin \in DOMAIN lead_provider.covrtab_fwd
                 THEN c.coverage_fwd + lead_provider.covrtab_fwd[bin]
                 ELSE c.coverage_fwd
             coverage_rev ==
                 IF bin \in DOMAIN lead_provider.covrtab_rev
                 THEN c.coverage_rev + lead_provider.covrtab_rev[bin]
                 ELSE c.coverage_rev
             coverage_sum == c.coverage_sum + coverage_fwd + coverage_rev
             bin_count == c.bin_count + 1
             flush == bin % config.coverage_binsize_combine = 0
             w1 == IF flush
                   THEN CoverageFlush(w, h, bin, coverage_sum, bin_count)
                   ELSE w
         IN  CoverageLoop(w1, h, lead_provider, bin + config.coverage_binsize,
                          end_bin,
                          [coverage_fwd |-> coverage_fwd,
                           coverage_rev |-> coverage_rev,
                           coverage_sum |-> IF flush THEN 0 ELSE coverage_sum,
                           bin_count |-> IF flush THEN 0 ELSE bin_count])

\* SNFile.annotate_block_coverages; the resolution argument is never read
annotate_block_coverages(w, h, lead_provider, resolution) ==
    LET start_bin == lead_provider.covrtab_min_bin
        end_bin == IntDiv(lead_provider.end, config.coverage_binsize)
                     * config.coverage_binsize
    IN  Ret(CoverageLoop(w, h, lead_provider, start_bin, end_bin,
                         [coverage_fwd |-> 0, coverage_rev |-> 0,
                          coverage_sum |-> 0, bin_count |-> 0]),
            "", None)

Annotate(h, lead_provider, resolution) ==
    /\ Exists(h)
    /\ LET r == annotate_block_coverages(World, h, lead_provider, resolution)
       IN  /\ last' = Call("annotate_block_coverages", h, StrKey(""), 0, r)
           /\ Commit(r, FALSE, h)
    /\ cov' = Some([lead_provider |-> lead_provider, resolution |-> resolution])
    /\ UNCHANGED <<stored, writes, threads>>

(***************************************************************************)
(* SpecWrite: the producer's use of one SNFile, constructed on a device    *)
(* opened for writing: store calls, and one write_and_index pass           *)
(***************************************************************************)
\* The candidates passed to store
Candidates ==
    {Cand(100, "DEL", <<"r1">>), Cand(250, "DEL", <<"r2">>),
     Cand(1100, "INS", <<"r3">>), Cand(-100, "INS", <<"r4">>)}

WriteConfigs ==
    [combine_close_handles : BOOLEAN, output_rnames : BOOLEAN,
     snf_block_size : {1000}]

\* The object h of class k as constructed on open(filename, mode), the file
\* holding the bytes file
Constructed(h, k, mode, file) ==
    /\ kind = [g \in Handles |-> IF g = h THEN k ELSE "none"]
    /\ handle = [g \in Handles |-> IF g = h THEN [mode |-> mode, pos |-> 0]
                                  ELSE Closed]
    /\ _header = [g \in Handles |-> None]
    /\ _index = [g \in Handles |-> Some(<<>>)]
    /\ header_length = [g \in Handles |-> None]
    /\ blocks = [g \in Handles |-> <<>>]
    /\ filename = [g \in Handles |-> g]
    /\ total_length = [g \in Handles |-> 0]
    /\ _ACTIVE = <<>>
    /\ disk = [g \in Handles |-> IF g = h THEN file ELSE <<>>]
    /\ last = NoCall
    /\ useOrder = <<>>
    /\ loadOrder = <<>>
    /\ firstLoad = [g \in Handles |-> None]
    /\ stored = [g \in Handles |-> <<>>]
    /\ writes = [g \in Handles |-> 0]
    /\ cov = None
    /\ threads = None

InitWrite ==
    /\ config \in WriteConfigs
    /\ _MAX_ACTIVE = MaxCap
    /\ Constructed(1, "SNFile", "wb", <<>>)

\* The single write_and_index pass of the producer
Flush(h) == writes[h] = 0 /\ WriteAndIndex(h)

NextWrite ==
    \/ \E svcand \in Candidates : Store(1, svcand)
    \/ Flush(1)

SpecWrite == InitWrite /\ [][NextWrite]_vars

(***************************************************************************)
(* Storing and writing                                                     *)
(***************************************************************************)
\* The candidate as store keeps it: rnames cleared unless output_rnames
Kept(svcand) ==
    IF config.output_rnames THEN svcand ELSE [svcand EXCEPT !.rnames = None]

\* b is the block id of position pos: the multiple of the block size next to
\* pos on the side of zero
IsBlockOf(b, pos) ==
    /\ b % config.snf_block_size = 0
    /\ pos >= 0 => b <= pos /\ pos < b + config.snf_block_size
    /\ pos < 0 => b >= pos /\ pos > b - config.snf_block_size

\* C9: each stored candidate is in the block of its position under its type
\* tag, and the list of a block and a type tag is exactly the candidates stored
\* for them, in the order of the store calls, repeats included.
C9_StoreGrouping ==
    \A h \in Handles :
        /\ \A i \in 1..Len(stored[h]) :
              \E b \in DOMAIN blocks[h] : IsBlockOf(b, stored[h][i].pos)
        /\ \A b \in DOMAIN blocks[h] : \A t \in TYPES :
              blocks[h][b][t]
                = SelectSeq([i \in 1..Len(stored[h]) |-> Kept(stored[h][i])],
                            LAMBDA c : IsBlockOf(b, c.pos) /\ c.svtype = t)

\* The example: positions 100, 250, 1100 stored under tags DEL, DEL, INS
C9_Witness ==
    /\ Len(stored[1]) = 3
    /\ stored[1][1].pos = 100 /\ stored[1][2].pos = 250 /\ stored[1][3].pos = 1100
    /\ DOMAIN blocks[1] = {0, 1000}
    /\ Len(blocks[1][0]["DEL"]) = 2
    /\ blocks[1][0]["DEL"][1].pos = 100
    /\ blocks[1][0]["DEL"][2].pos = 250
    /\ Len(blocks[1][1000]["INS"]) = 1

\* The index entry of block id b
Range(h, b) == _index[h][1][IntKey(b)]

\* C10: after write_and_index the file body holds the payloads of the buffered
\* blocks in ascending block-id order; every buffered block id has an index
\* entry (offset, length), the ranges tile the body from offset 0 without gap
\* or overlap, and the bytes of each range decode to the buffered block.
C10_WriteLayout ==
    \A h \in Handles :
        (last.op = "write_and_index" /\ last.h = h)
        => LET body == disk[filename[h]]
               ids == DOMAIN blocks[h]
           IN  /\ last.exc = ""
               /\ _index[h] # None
               /\ DOMAIN _index[h][1] = {IntKey(b) : b \in ids}
               /\ \A b \in ids :
                     /\ Range(h, b)[1] >= 0
                     /\ Range(h, b)[2] = DataLen(blocks[h][b])
                     /\ Range(h, b)[1] + Range(h, b)[2] <= Len(body)
                     /\ LET data == SubSeq(body, Range(h, b)[1] + 1,
                                           Range(h, b)[1] + Range(h, b)[2])
                        IN  Decodes(data) /\ Decode(data) = blocks[h][b]
                     /\ \/ Range(h, b)[1] = 0 /\ \A c \in ids : b <= c
                        \/ \E c \in ids :
                              /\ c < b
                              /\ \A d \in ids : ~(c < d /\ d < b)
                              /\ Range(h, c)[1] + Range(h, c)[2] = Range(h, b)[1]
               /\ \A b \in ids :
                     (\A c \in ids : c <= b)
                     => Range(h, b)[1] + Range(h, b)[2] = Len(body)
               /\ ids = {} => body = <<>>

\* A pass wrote two blocks of different length
C10_Witness ==
    /\ last.op = "write_and_index"
    /\ last.exc = ""
    /\ DOMAIN blocks[1] = {0, 1000}
    /\ Range(1, 0) = <<0, 3>>
    /\ Range(1, 1000) = <<3, 2>>
    /\ Len(disk[filename[1]]) = 5

(***************************************************************************)
(* SpecIO: one object of either class, constructed for reading the stored  *)
(* file or for writing a new one, and every call on it                     *)
(***************************************************************************)
InitIO ==
    /\ config \in Configs
    /\ _MAX_ACTIVE = MaxCap
    /\ \E k \in {"SNFile", "LazySNFile"} :
          \/ Constructed(1, k, "rb", ValidFile)
          \/ Constructed(1, k, "wb", <<>>)

NextIO ==
    \/ ReadHeader(1)
    \/ IndexAccess(1)
    \/ HeaderAccess(1)
    \/ \E req \in Requests : ReadBlocks(1, req[1], req[2])
    \/ Unload(1)
    \/ Close(1)
    \/ Open(1)
    \/ Store(1, Cand(100, "DEL", None))
    \/ WriteAndIndex(1)

SpecIO == InitIO /\ [][NextIO]_vars

\* The ranges an index holds for a request, none if the request is absent
Ranges(idx, contig, block_index) ==
    IF /\ contig \in DOMAIN idx
       /\ StrKey(Str(block_index)) \in DOMAIN idx[contig]
    THEN idx[contig][StrKey(Str(block_index))]
    ELSE <<>>

\* The index that object h answers requests from: the one it holds, or the
\* one of its file when a LazySNFile holds none
IndexOf(h) ==
    IF kind[h] = "LazySNFile" /\ _header[h] = None THEN StoredIndex
    ELSE IF _index[h] = None THEN <<>> ELSE _index[h][1]

\* Object h is a handle over the stored file
OverValidFile(h) == Exists(h) /\ disk[filename[h]] = ValidFile

\* The bytes of the stored file's range, decoded
StoredBlock(range) ==
    Decode(SubSeq(ValidFile, Len(HeaderRecord(StoredHeader)) + range[1] + 1,
                  Len(HeaderRecord(StoredHeader)) + range[1] + range[2]))

\* C7: on a handle over the valid stored file, read_blocks for a request with
\* ranges in the index returns the decoded block of every range, read at
\* header_length + offset, in index order, and raises nothing.
C7_ReadBlocksReturnsRanges ==
    [][\A h \in Handles :
          (/\ last'.op = "read_blocks"
           /\ last'.h = h
           /\ OverValidFile(h)
           /\ Ranges(IndexOf(h), last'.contig, last'.block) # <<>>)
          => LET ranges == Ranges(IndexOf(h), last'.contig, last'.block)
             IN  /\ last'.exc = ""
                 /\ last'.ret
                      = Some([i \in 1..Len(ranges) |-> StoredBlock(ranges[i])])
      ]_vars

\* Object h has just run write_and_index
JustWritten(h) ==
    last.op = "write_and_index" /\ last.h = h /\ last.exc = ""

\* C8: read_blocks for a request with no ranges in the index returns None and
\* raises nothing, on an object that has just run write_and_index and on an
\* object over the stored file, of either class.
C8_AbsentReturnsNone ==
    [][\A h \in Handles :
          (/\ last'.op = "read_blocks"
           /\ last'.h = h
           /\ JustWritten(h) \/ OverValidFile(h)
           /\ Ranges(IndexOf(h), last'.contig, last'.block) = <<>>
           /\ Ranges(StoredIndex, last'.contig, last'.block) = <<>>)
          => last'.exc = "" /\ last'.ret = None
      ]_vars

(***************************************************************************)
(* SpecCov: one SNFile being filled by store and annotate_block_coverages  *)
(***************************************************************************)
CovConfigs ==
    [combine_close_handles : {FALSE}, output_rnames : {TRUE},
     snf_block_size : {1000}, coverage_binsize : {100},
     coverage_binsize_combine : {200}]

\* The lead providers passed to annotate_block_coverages: depth tables
\* bin -> entry over the bins from covrtab_min_bin to end
LeadProviders ==
    {LeadProvider(0, 250, <<>>, <<>>),
     LeadProvider(0, 250, (0 :> 2), <<>>),
     LeadProvider(-200, 250, (-200 :> 1) @@ (100 :> 1), (100 :> 1)),
     LeadProvider(0, 1050, (0 :> 1), (900 :> 1))}

\* The resolution arguments passed to annotate_block_coverages
Resolutions == {200, 300}

\* The candidates passed to store between annotations
CovCandidates == {Cand(1100, "INS", None), Cand(-100, "INS", None)}

InitCov ==
    /\ config \in CovConfigs
    /\ _MAX_ACTIVE = MaxCap
    /\ Constructed(1, "SNFile", "wb", <<>>)

NextCov ==
    \/ \E svcand \in CovCandidates : Store(1, svcand)
    \/ \E lead_provider \in LeadProviders : \E resolution \in Resolutions :
          Annotate(1, lead_provider, resolution)

SpecCov == InitCov /\ [][NextCov]_vars

\* The native bins a call walks: range(start_bin, end_bin + binsize, binsize)
Walked(lp) ==
    {k \in lp.covrtab_min_bin ..
           IntDiv(lp.end, config.coverage_binsize) * config.coverage_binsize :
        (k - lp.covrtab_min_bin) % config.coverage_binsize = 0}

\* The bins walked since the flush point before k, k included, for flush
\* points at the multiples of R
Window(lp, R, k) ==
    {b \in Walked(lp) :
        /\ b <= k
        /\ \A f \in Walked(lp) : (f % R = 0 /\ f < k) => f < b}

\* The entry of a depth table for a bin, 0 for a bin the table does not hold
Entry(tab, bin) == IF bin \in DOMAIN tab THEN tab[bin] ELSE 0

\* Sum of the forward plus reverse entries of a set of bins
RECURSIVE DepthSum(_, _)
DepthSum(lp, bins) ==
    IF bins = {} THEN 0
    ELSE LET b == CHOOSE x \in bins : TRUE
         IN  Entry(lp.covrtab_fwd, b) + Entry(lp.covrtab_rev, b)
               + DepthSum(lp, bins \ {b})

\* ceil(S / n) over the window that ends at k
WindowValue(lp, R, k) ==
    Ceil(DepthSum(lp, Window(lp, R, k)), Cardinality(Window(lp, R, k)))

\* The coverage sub-mapping of block b in the blocks bs, empty without b
CoverageOf(bs, b) == IF b \in DOMAIN bs THEN bs[b]["_COVERAGE"] ELSE <<>>

\* The step sets coverage key k of block b of object h
Emits(h, b, k) ==
    /\ k \in DOMAIN CoverageOf(blocks'[h], b)
    /\ \/ k \notin DOMAIN CoverageOf(blocks[h], b)
       \/ CoverageOf(blocks[h], b)[k] # CoverageOf(blocks'[h], b)[k]

\* C11: every coverage key a call annotate_block_coverages(lp, R) adds is a
\* multiple of R, and every walked multiple of R whose window value is
\* positive is a coverage key after the call.
C11_CoverageKeys ==
    [][\A h \in Handles :
          (last'.op = "annotate_block_coverages" /\ last'.h = h)
          => LET lp == cov'[1].lead_provider
                 R == cov'[1].resolution
             IN  /\ \A b \in DOMAIN blocks'[h] :
                       \A k \in DOMAIN CoverageOf(blocks'[h], b) :
                          Emits(h, b, k) => k % R = 0
                 /\ \A k \in Walked(lp) :
                       (k % R = 0 /\ WindowValue(lp, R, k) > 0)
                       => \E b \in DOMAIN blocks'[h] :
                             k \in DOMAIN CoverageOf(blocks'[h], b)
      ]_vars

\* C12: every value a call emits at a flush point is ceil(S / n) for the sum
\* S of the forward plus reverse table entries of the n bins walked since
\* the previous flush point.
C12_CoverageValues ==
    [][\A h \in Handles :
          (last'.op = "annotate_block_coverages" /\ last'.h = h)
          => LET lp == cov'[1].lead_provider
             IN  \A b \in DOMAIN blocks'[h] :
                    \A k \in DOMAIN CoverageOf(blocks'[h], b) :
                       Emits(h, b, k)
                       => CoverageOf(blocks'[h], b)[k]
                            = WindowValue(lp, config.coverage_binsize_combine, k)
      ]_vars

\* C16: every block id is a multiple of the block size, every block has one
\* sequence per SV type and a coverage sub-mapping, and every candidate and
\* every coverage key of block b has floor(position / block_size) * block_size
\* equal to b.
C16_BlockPlacement ==
    \A h \in Handles : \A b \in DOMAIN blocks[h] :
        /\ b % config.snf_block_size = 0
        /\ DOMAIN blocks[h][b] = TYPES \cup {"_COVERAGE"}
        /\ \A t \in TYPES : \A i \in 1..Len(blocks[h][b][t]) :
              (blocks[h][b][t][i].pos \div config.snf_block_size)
                * config.snf_block_size = b
        /\ \A k \in DOMAIN blocks[h][b]["_COVERAGE"] :
              (k \div config.snf_block_size) * config.snf_block_size = b

\* C13: with combine_close_handles set, the handle is closed after every
\* write_and_index, read_header and read_blocks call that returns, returns
\* None, or raises a header-parse or block-decode error.
C13_EagerClose ==
    [][\A h \in Handles :
          (/\ config.combine_close_handles
           /\ last'.h = h
           /\ last'.op \in {"write_and_index", "read_header", "read_blocks"}
           /\ last'.exc \in {"", "JSONDecodeError", "BadGzipFile"})
          => handle'[h] = Closed
      ]_vars

\* C14: on an SNFile over the valid stored file on which nothing was stored
\* or written, every read_header call returns and leaves the header the
\* parsed first record, the index its index entry and header_length the
\* length of the first record.
C14_ReadsHeaderRecord ==
    [][\A h \in Handles :
          (/\ last'.op = "read_header"
           /\ last'.h = h
           /\ kind[h] = "SNFile"
           /\ OverValidFile(h)
           /\ stored[h] = <<>> /\ writes[h] = 0)
          => /\ last'.exc = ""
             /\ _header'[h] = Some(StoredHeader)
             /\ _index'[h] = Some(StoredIndex)
             /\ header_length'[h] = Some(Len(HeaderRecord(StoredHeader)))
      ]_vars

\* C15: after every call a LazySNFile is in the registry exactly if its
\* header is loaded, and a call that raises leaves every other object's
\* header as it was.
C15_RegistryIsResidency ==
    /\ [](\A h \in Handles : Lazy(h) => (InSeq(h, _ACTIVE) <=> _header[h] # None))
    /\ [][\A h \in Handles :
            (last'.h = h /\ last'.exc # "")
            => \A g \in Handles \ {h} : _header'[g] = _header[g]]_vars

(***************************************************************************)
(* SpecThreads: two threads calling LazySNFile.read_header on different    *)
(* objects.  A call is three steps on the shared registry: the insert or   *)
(* move, the size check with the eviction, and the header load.  With      *)
(* threads.serial the caller lets a call start only when no other call is  *)
(* under way; without it the steps of the two calls interleave.            *)
(***************************************************************************)
Threads == {"t1", "t2"}

\* A step of a thread's call, installed like a call's outcome
ThreadStep(t, op, h, w, exc, pc) ==
    /\ last' = Call(op, h, StrKey(""), 0, Ret(w, exc, None))
    /\ Commit(Ret(w, exc, None), op = "touch", h)
    /\ threads' = [threads EXCEPT !.pc[t] = pc, !.self[t] = h]
    /\ UNCHANGED <<stored, writes, cov>>

\* Lines 211-214: self enters the registry or moves to its end
ThreadTouch(t, h) ==
    /\ threads.pc[t] = "idle"
    /\ Lazy(h)
    /\ \A u \in Threads \ {t} :
          /\ threads.pc[u] # "idle" => threads.self[u] # h
          /\ threads.serial => threads.pc[u] = "idle"
    /\ ThreadStep(t, "touch", h, RegistryTouch(Entered(World, h), h), "",
                  "registered")

\* Lines 216-218: the size check and the eviction
ThreadEvict(t) ==
    /\ threads.pc[t] = "registered"
    /\ ThreadStep(t, "evict", threads.self[t], RegistryEvict(World), "",
                  "trimmed")

\* Lines 220-224: the seek and the load of the header
ThreadLoad(t) ==
    /\ threads.pc[t] = "trimmed"
    /\ LET h == threads.self[t]
           r == SNFile_read_header(SeekStart(Entered(World, h), h), h)
       IN  ThreadStep(t, "load", h, r.w, r.exc, "idle")

InitThreads ==
    /\ config \in Configs
    /\ _MAX_ACTIVE \in 1..MaxCap
    /\ kind = [h \in Handles |-> "LazySNFile"]
    /\ handle = [h \in Handles |-> Closed]
    /\ _header = [h \in Handles |-> None]
    /\ _index = [h \in Handles |-> Some(<<>>)]
    /\ header_length = [h \in Handles |-> None]
    /\ blocks = [h \in Handles |-> <<>>]
    /\ filename = [h \in Handles |-> h]
    /\ total_length = [h \in Handles |-> 0]
    /\ _ACTIVE = <<>>
    /\ disk = [h \in Handles |-> ValidFile]
    /\ last = NoCall
    /\ useOrder = <<>>
    /\ loadOrder = <<>>
    /\ firstLoad = [h \in Handles |-> None]
    /\ stored = [h \in Handles |-> <<>>]
    /\ writes = [h \in Handles |-> 0]
    /\ cov = None
    /\ \E serial \in BOOLEAN :
          threads = [serial |-> serial, pc |-> [t \in Threads |-> "idle"],
                     self |-> [t \in Threads |-> 0]]

NextThreads ==
    \E t \in Threads :
        \/ \E h \in Handles : ThreadTouch(t, h)
        \/ ThreadEvict(t)
        \/ ThreadLoad(t)

SpecThreads == InitThreads /\ [][NextThreads]_vars

\* The residency bound is broken: more than _MAX_ACTIVE objects hold a loaded
\* header, or an object holds one while it is not in the registry
BoundBroken ==
    \/ Cardinality(Resident) > _MAX_ACTIVE
    \/ \E h \in Resident : ~InSeq(h, _ACTIVE)

\* C17: when the caller runs the read_header calls of the two threads one
\* after the other the residency bound is never broken; when their steps
\* interleave, a state with the bound broken is reached.
C17_SerialCallsKeepBound == threads.serial => ~BoundBroken

\* Interleaved calls have broken the bound
C17_Witness == ~threads.serial /\ BoundBroken

\* Object h was constructed for writing a new file
Writer(h) == Exists(h) /\ ~OverValidFile(h)

\* The bytes of the body of h's file that an index entry points at
EntryBytes(h, range) ==
    SubSeq(disk[filename[h]], range[1] + 1, range[1] + range[2])

\* C18: on an object that writes, after every call total_length is the
\* number of body bytes written, it is the end of the highest range of the
\* index, and every index entry points at the bytes of a payload of its
\* block: after a write_and_index pass, the payload of the block as buffered.
C18_IndexAndLength ==
    \A h \in Handles :
        (Writer(h) /\ _index[h] # None)
        => LET idx == _index[h][1]
           IN  /\ total_length[h] = Len(disk[filename[h]])
               /\ \A k \in DOMAIN idx : idx[k][1] + idx[k][2] <= total_length[h]
               /\ idx # <<>>
                  => \E k \in DOMAIN idx : idx[k][1] + idx[k][2] = total_length[h]
               /\ \A k \in DOMAIN idx :
                     /\ Decodes(EntryBytes(h, idx[k]))
                     /\ (last.op = "write_and_index" /\ last.h = h /\ last.exc = "")
                        => Decode(EntryBytes(h, idx[k])) = blocks[h][k.n]

====
